---- MODULE Spec2Model ----
(***************************************************************************)
(* Model of the Newport SMC100CC stage driver (src/stage.py): the serial   *)
(* command exchange, the status decoding, the readiness wait, homing in    *)
(* the constructor and move_absolute.                                      *)
(*                                                                         *)
(* Text is modelled as a sequence of one-character strings, so that the    *)
(* prefix removal, the trimming and the slicing of the code are computed   *)
(* and not assumed.  The controller is the environment: every line read    *)
(* from the serial port is drawn from a finite set of lines.               *)
(*                                                                         *)
(* Further specifications of the module: InterpSpec (the status decoding   *)
(* taken alone), ChanSpec (the exchanges on the serial channel), LiveSpec  *)
(* (the driver with time passing), LegacySpec (the driver of src/main.py), *)
(* MockSpec (the data source of src/mock_beamgagepy.py) and DispatchSpec   *)
(* (the frame events of src/mock_beamgagepy.py).                           *)
(***************************************************************************)
EXTENDS Integers, Sequences, FiniteSets, TLC

VARIABLES
    pc,            \* where the driver is: "new", "home", "home_or", "wait",
                   \* "idle", "move_pa", "move_te", "move_tp", "failed"
    ret,           \* caller that the current wait returns to: "none",
                   \* "home_busy", "home_or", "move"
    op,            \* the call in progress or last finished: "none", "home", "move"
    target,        \* target_mm of the current move_absolute call (0 outside one)
    first,         \* state returned by the first _get_controller_state of the call
    payload,       \* clean_resp of the most recent _get_controller_state
    seen,          \* states returned by the polls of the current wait that were
                   \* followed by another loop iteration
    last,          \* state returned by the latest poll of the current wait
                   \* that returned one (<<>> before)
    npolls,        \* _get_controller_state calls made by the current wait
    err,           \* value returned by get_error() in the current call
    waitTimeout,   \* the timeout argument of the current _wait_for_ready
    elapsed,       \* whole seconds of time.time() - start in the current wait
    waitExit,      \* how the wait of the call ended: "none", "ready", "fault", "timeout"
    raised,        \* the call ended by a propagating exception (the failed
                   \* assertion of a status read, or the port not opening)
    writes,        \* commands written to the serial port during the call, in order
    printed,       \* messages printed during the call, in order
    flushed,       \* the constructor has read the input buffer away (read_all)
    clean,         \* clean_resp of the get_error() or get_position() called
                   \* by the user
    pos,           \* value returned by the get_position() called by the user,
                   \* in thousandths of a millimetre
    fin,           \* status decoding taken alone: the two lines given to it
    fout,          \* status decoding taken alone: what it made of each line
    cpc,           \* the channel: "idle" between exchanges, "written" between
                   \* the write and the readline of _send_command
    sent,          \* the channel: the command the current or last exchange wrote
    got,           \* the channel: the command whose reply the last readline
                   \* returned (NoCommand: it returned no line)
    unanswered,    \* the channel: commands the controller has not answered yet
    rx,            \* the channel: replies in the input buffer, oldest first
    nexch,         \* the channel: exchanges begun
    lpc,           \* main.py: "idle" outside move_absolute, "loop" in its
                   \* polling loop
    target_mm,     \* main.py: target of move_absolute, in thousandths of a mm
    current_pos,   \* main.py: the last get_position reading, in thousandths
    nPA,           \* main.py: PA frames written by the call
    nTP,           \* main.py: TP frames written by the call
    iofailed,      \* main.py: the serial port failed in the last exchange
    response,      \* main.py: what the last _send_command gave its caller
    returned,      \* main.py: move_absolute has returned
    is_running,    \* mock data source: _is_running
    stop_event,    \* mock data source: _stop_event is set
    frame_thread,  \* mock data source: _frame_thread (0: None)
    attached,      \* mock data source: _frame_events is not None
    emit,          \* mock data source: where each thread of _emit_frames is:
                   \* "unborn", "test" (at the loop test, or asleep before
                   \* it), "handler" (inside trigger_new_frame), "dead"
    mockpc,        \* mock data source: "idle", or "joining" inside stop()
    nthreads,      \* mock data source: threads created
    ncalls,        \* mock data source: calls of start() and stop() made
    mockRaised,    \* mock data source: the last start() raised RuntimeError
    on_new_frame_handlers,
                   \* frame events: _on_new_frame_handlers, the list
    dpc,           \* frame events: "idle", or "dispatching" inside
                   \* trigger_new_frame
    idx,           \* frame events: elements the list iterator of
                   \* trigger_new_frame has passed
    subscribed,    \* frame events: handlers in the list when the current or
                   \* last trigger_new_frame started
    removed,       \* frame events: handlers unsubscribed since it started
    invoked,       \* frame events: calls of each handler it has made
    caught         \* frame events: handlers whose exception it has caught

stageVars == <<pc, ret, op, target, first, payload, seen, last, npolls, err,
               waitTimeout, elapsed, waitExit, raised, writes, printed,
               flushed, clean, pos>>

---------------------------------------------------------------------------
(* Bounds of the model *)

\* clock resolution: the move timeout is divided into this many clock steps
TicksPerMove == 2

\* loop iterations explored in one wait
MaxPolls == 3

\* exchanges explored on the channel
MaxExchanges == 3

\* frame handlers there are to subscribe
MaxHandlers == 3

\* threads the mock data source may create
MaxThreads == 3

\* calls of start() and stop() explored
MaxCalls == 6

\* iterations explored of the polling loop of main.py
MaxLegacyPolls == 4

---------------------------------------------------------------------------
(* Program constants *)

Axis == 1

MoveTimeout == 30

HomeTimeout == 60

TickSeconds == MoveTimeout \div TicksPerMove

\* main.py: MOTOR_AXIS
MotorAxis == 1

\* main.py: the tolerance 0.005 mm of move_absolute, in thousandths of a mm
Tolerance == 5

ReadyCodes == {<<"3","2">>, <<"3","3">>, <<"3","4">>, <<"3","5">>}

FaultCodes == {<<"3","C">>, <<"3","D">>, <<"3","E">>, <<"1","4">>}

BusyCodes == {<<"2","8">>, <<"1","E">>, <<"1","F">>}

---------------------------------------------------------------------------
(* Text helpers: Python str operations used by the driver *)

Whitespace == {" ", "\t", "\r", "\n"}

\* str(int) for the one-digit axis number
Digit(n) == <<"0","1","2","3","4","5","6","7","8","9">>[n + 1]

\* str(n) of a natural number
RECURSIVE Fmt(_)
Fmt(n) == IF n < 10 THEN <<Digit(n)>> ELSE Fmt(n \div 10) \o <<Digit(n % 10)>>

\* str(x) of a float with one decimal, x given in tenths: 125 is "12.5", 50 is "5.0"
FloatStr(tenths) == Fmt(tenths \div 10) \o <<".">> \o Fmt(tenths % 10)

StartsWith(s, old) == Len(s) >= Len(old) /\ SubSeq(s, 1, Len(old)) = old

\* s.replace(old, ""): every non-overlapping occurrence removed, left to right
RECURSIVE Replace(_, _)
Replace(s, old) ==
    IF Len(s) < Len(old) \/ Len(old) = 0 THEN s
    ELSE IF StartsWith(s, old) THEN Replace(SubSeq(s, Len(old) + 1, Len(s)), old)
    ELSE <<Head(s)>> \o Replace(Tail(s), old)

RECURSIVE LStrip(_)
LStrip(s) == IF s # <<>> /\ Head(s) \in Whitespace THEN LStrip(Tail(s)) ELSE s

RECURSIVE RStrip(_)
RStrip(s) ==
    IF s # <<>> /\ s[Len(s)] \in Whitespace THEN RStrip(SubSeq(s, 1, Len(s) - 1)) ELSE s

\* s.strip()
Strip(s) == LStrip(RStrip(s))

\* s[-2:]
LastTwo(s) == IF Len(s) <= 2 THEN s ELSE SubSeq(s, Len(s) - 1, Len(s))

---------------------------------------------------------------------------
(* The wire: command frames written, lines the controller may send back *)

TS == <<"T","S">>

TE == <<"T","E">>

TP == <<"T","P">>

OR == <<"O","R">>

PA == <<"P","A">>

\* the bytes _send_command writes for cmd_str
Frame(cmd_str) == Fmt(Axis) \o cmd_str \o <<"\r","\n">>

\* a reply line as the controller sends it
Line(text) == text \o <<"\r","\n">>

\* status codes the controller may report: the codes the driver names, one
\* of the not-referenced range, and one code the driver does not name
NotReferencedCodes == {<<"0","A">>}

OtherCodes == {<<"4","6">>}

Codes == ReadyCodes \cup FaultCodes \cup BusyCodes \cup NotReferencedCodes \cup OtherCodes

\* no line arrived within the read timeout: readline() returns b""
NoLine == <<>>

\* lines read in answer to TS: every code with the echoed prefix, two lines
\* without it, a read timeout, and payloads that are not six characters long
TSLines ==
    {Line(Fmt(Axis) \o TS \o <<"0","0","0","0">> \o c) : c \in Codes}
    \cup {Line(<<"0","0","0","0","3","2">>), Line(<<"0","0","1","F","2","8">>)}
    \cup {NoLine, Line(Fmt(Axis) \o TS \o <<"3","2">>),
          Line(Fmt(Axis) \o TS \o <<"0","0","0","0","0","0","3","2">>)}

\* lines read in answer to TE
TELines ==
    {Line(p \o e) : p \in {<<>>, Fmt(Axis) \o TE}, e \in {<<"@">>, <<"C">>}}
    \cup {NoLine}

\* lines read in answer to TP: positions with and without the echoed prefix,
\* a read timeout, an empty payload and payloads that are no number
TPLines ==
    {Line(Fmt(Axis) \o TP \o <<"1","2",".","5">>), Line(<<"5",".","0">>), NoLine,
     Line(Fmt(Axis) \o TP \o <<"-","3",".","2","5">>),
     Line(Fmt(Axis) \o TP \o <<"1","0",".","0","0","5">>),
     Line(Fmt(Axis) \o TP \o <<"0",".","0">>),
     Line(Fmt(Axis) \o TP), Line(<<"?">>),
     Line(Fmt(Axis) \o TP \o <<"1",".","2",".","3">>)}

\* lines read after OR and PA, which the controller does not answer
AckLines == {NoLine, Line(<<"?">>)}

\* target_mm values passed to move_absolute, in tenths of a millimetre
Targets == {50, 125}

---------------------------------------------------------------------------
(* The driver's pure steps *)

\* _send_command: what it returns for the line read
SendCommand(line) == Strip(line)

\* resp.replace(f"{self.axis}XX", "").strip()
CleanResp(resp, opcode) == Strip(Replace(resp, Fmt(Axis) \o opcode))

\* the assertion of _get_controller_state
StateAsserted(clean_resp) == Len(clean_resp) = 6

\* mutant: the first two characters are returned, not the last two
GetControllerStateFirstTwo(clean_resp) == SubSeq(clean_resp, 1, 2)

\* _get_controller_state: the value returned
GetControllerState(clean_resp) == LastTwo(clean_resp)

ErrorCodeText == <<"E","r","r","o","r"," ","C","o","d","e",":"," ">>

\* mutant: the payload itself is returned as the error
GetErrorRaw(resp) ==
    LET clean_resp == CleanResp(resp, TE)
    IN  IF clean_resp # <<"@">> THEN clean_resp ELSE <<>>

\* get_error: the value returned for the response read
GetError(resp) ==
    LET clean_resp == CleanResp(resp, TE)
    IN  IF clean_resp # <<"@">> THEN ErrorCodeText \o clean_resp ELSE <<>>

DigitChars == {Digit(n) : n \in 0..9}

DigitValue(c) == CHOOSE n \in 0..9 : Digit(n) = c

\* the natural number written by a sequence of digits (0 for none)
RECURSIVE Number(_)
Number(ds) ==
    IF ds = <<>> THEN 0
    ELSE 10 * Number(SubSeq(ds, 1, Len(ds) - 1)) + DigitValue(ds[Len(ds)])

Unsigned(s) == IF s # <<>> /\ Head(s) \in {"+", "-"} THEN Tail(s) ELSE s

\* float(s) does not raise ValueError, for s in decimal notation: an optional
\* sign, digits, at most one point, at least one digit (the other notations
\* float() accepts are not among the lines read)
IsFloat(s) ==
    LET u == Unsigned(s)
        points == {i \in 1..Len(u) : u[i] = "."}
    IN  /\ Cardinality(points) <= 1
        /\ \A i \in 1..Len(u) : u[i] \in DigitChars \cup {"."}
        /\ \E i \in 1..Len(u) : u[i] \in DigitChars

\* float(s) in thousandths, for s of at most three decimals
FloatValue(s) ==
    LET u == Unsigned(s)
        points == {i \in 1..Len(u) : u[i] = "."}
        p == IF points = {} THEN Len(u) + 1 ELSE CHOOSE i \in points : TRUE
        whole == SubSeq(u, 1, p - 1)
        frac == SubSeq(u, p + 1, Len(u))
        thousandths == Number(SubSeq(frac \o <<"0","0","0">>, 1, 3))
        magnitude == 1000 * Number(whole) + thousandths
    IN  IF Head(s) = "-" THEN 0 - magnitude ELSE magnitude

\* the value get_position returns when the payload is no number: -999.0
UnknownPosition == 0 - 999000

\* mutant: a payload that is no number leaves the position last returned
GetPositionCached(resp) ==
    LET clean_resp == CleanResp(resp, TP)
    IN  IF IsFloat(clean_resp) THEN FloatValue(clean_resp) ELSE pos

\* get_position: the value returned for the response read
GetPosition(resp) ==
    LET clean_resp == CleanResp(resp, TP)
    IN  IF IsFloat(clean_resp) THEN FloatValue(clean_resp) ELSE UnknownPosition

\* mutant: the value of get_error is not looked at
MoveRejectedNever(e) == FALSE

\* move_absolute: "if err", the truth value of the str get_error returned
MoveRejected(e) == e # <<>>

\* mutant: only the state reached by homing counts as referenced
HomeReadyFromHomingOnly(state) == state = <<"3","2">>

\* _home: "if state in [32, 33, 34, 35]"
HomeAlreadyReady(state) == state \in ReadyCodes

\* mutant: every state that is not ready is waited on, none is homed
HomeBusyAny(state) == state \notin ReadyCodes

\* mutant: the homing states are left out of the list
HomeBusyMovingOnly(state) == state = <<"2","8">>

\* _home: "if state in [28, 1E, 1F]"
HomeBusy(state) == state \in BusyCodes

\* mutant: the wait does not look for the fault states
WaitFaultNever(state) == FALSE

\* _wait_for_ready: "if state in [3C, 3D, 3E, 14]"
WaitFault(state) == state \in FaultCodes

\* mutant: every state the wait has no name for counts as ready
WaitReadyUnlessNamed(state) == state \notin FaultCodes \cup BusyCodes

\* _wait_for_ready: "if state in [32, 33, 34, 35]"
WaitReady(state) == state \in ReadyCodes

\* mutant: the move is refused only while the stage is moving or homing
MoveAllowedUnlessBusy(state) == state \notin BusyCodes

\* move_absolute: the negation of "if state not in [32, 33, 34, 35]"
MoveAllowed(state) == state \in ReadyCodes

---------------------------------------------------------------------------
(* Messages printed by the driver *)

MsgAlreadyReferenced == "Already Referenced (Ready). Skipping Homing."

MsgWaiting == "Stage is currently moving/homing. Waiting..."

MsgHoming == "Homing (OR command)..."

MsgHomingComplete == "Homing Complete."

MsgEnteredState == "Error: Controller entered state during operation."

MsgTimedOut == "Warning: Operation Timed Out"

MsgCannotMove == "Error: Cannot Move. Controller in state (Not Ready)."

MsgMoving == "Moving to"

MsgMoveAborted == "Move Aborted. Controller Error"

MsgReached == "Reached"

---------------------------------------------------------------------------
(* State *)

callVars == <<first, payload, seen, last, npolls, err, waitExit, raised>>

userVars == <<clean, pos>>

\* the variables of the other parts of the repository, which the status
\* polling driver does not touch
interpVars == <<fin, fout>>

chanVars == <<cpc, sent, got, unanswered, rx, nexch>>

legacyVars == <<lpc, target_mm, current_pos, nPA, nTP, iofailed, response, returned>>

mockVars == <<is_running, stop_event, frame_thread, attached, emit, mockpc,
              nthreads, ncalls, mockRaised>>

dispatchVars == <<on_new_frame_handlers, dpc, idx, subscribed, removed, invoked,
                  caught>>

offStage == <<interpVars, chanVars, legacyVars, mockVars, dispatchVars>>

vars == <<stageVars, offStage>>

NoInput == [a |-> <<>>, b |-> <<>>, code |-> <<>>]

NoOutput == [a |-> [raised |-> FALSE, state |-> <<>>],
             b |-> [raised |-> FALSE, state |-> <<>>]]

InterpIdle == fin = NoInput /\ fout = NoOutput

\* no command: what got holds when readline returned no line
NoCommand == [cmd |-> <<>>, n |-> 0]

ChanIdle ==
    /\ cpc = "idle"
    /\ sent = NoCommand
    /\ got = NoCommand
    /\ unanswered = <<>>
    /\ rx = <<>>
    /\ nexch = 0

\* main.py: no _send_command has returned yet
NoResponse == [raised |-> FALSE, text |-> <<>>]

LegacyIdle ==
    /\ lpc = "idle"
    /\ target_mm = 0
    /\ current_pos = 0
    /\ nPA = 0
    /\ nTP = 0
    /\ iofailed = FALSE
    /\ response = NoResponse
    /\ returned = FALSE

Threads == 1..MaxThreads

\* MockDataSource.__init__
MockIdle ==
    /\ is_running = FALSE
    /\ stop_event = FALSE
    /\ frame_thread = 0
    /\ attached = FALSE
    /\ emit = [t \in Threads |-> "unborn"]
    /\ mockpc = "idle"
    /\ nthreads = 0
    /\ ncalls = 0
    /\ mockRaised = FALSE

Handlers == 1..MaxHandlers

\* MockFrameEvents.__init__
DispatchIdle ==
    /\ on_new_frame_handlers = <<>>
    /\ dpc = "idle"
    /\ idx = 0
    /\ subscribed = {}
    /\ removed = {}
    /\ invoked = [h \in Handlers |-> 0]
    /\ caught = {}

OffStageIdle == InterpIdle /\ ChanIdle /\ LegacyIdle /\ MockIdle /\ DispatchIdle

clockVars == <<waitTimeout, elapsed>>

StageInit ==
    /\ pc = "new"
    /\ ret = "none"
    /\ op = "none"
    /\ target = 0
    /\ first = <<>>
    /\ payload = <<>>
    /\ seen = {}
    /\ last = <<>>
    /\ npolls = 0
    /\ err = <<>>
    /\ waitTimeout = 0
    /\ elapsed = 0
    /\ waitExit = "none"
    /\ raised = FALSE
    /\ writes = <<>>
    /\ printed = <<>>
    /\ flushed = FALSE
    /\ clean = <<>>
    /\ pos = 0

Init == StageInit /\ OffStageIdle

\* _wait_for_ready(timeout) is entered from caller: start = time.time()
EnterWait(caller, timeout) ==
    /\ pc' = "wait"
    /\ ret' = caller
    /\ waitTimeout' = timeout
    /\ elapsed' = 0

\* where the driver is once a call has raised: a raise inside the constructor
\* leaves no driver object, a raise inside move_absolute leaves it usable
AfterRaise(call) == IF call = "home" THEN "failed" ELSE "idle"

\* mutant: move_absolute reports the arrival without reading the position
AfterWaitSkipConfirm(msgs) ==
    /\ ret' = "none"
    /\ pc' = "idle"
    /\ printed' = IF ret = "home_or" THEN Append(msgs, MsgHomingComplete)
                  ELSE IF ret = "home_busy" THEN msgs
                  ELSE Append(msgs, MsgReached)

\* the statements that follow the return of _wait_for_ready in its caller,
\* given the messages printed so far
AfterWait(msgs) ==
    /\ ret' = "none"
    /\ IF ret = "home_or"
         THEN pc' = "idle" /\ printed' = Append(msgs, MsgHomingComplete)
       ELSE IF ret = "home_busy"
         THEN pc' = "idle" /\ printed' = msgs
       ELSE pc' = "move_tp" /\ printed' = msgs

---------------------------------------------------------------------------
(* Construction and homing *)

\* mutant: the constructor does not read the input buffer away
ConnectWithoutDiscard ==
    /\ pc = "new"
    /\ \E opened \in BOOLEAN :
         IF opened THEN pc' = "home" /\ op' = "home" /\ raised' = FALSE
         ELSE pc' = "failed" /\ op' = "none" /\ raised' = TRUE
    /\ UNCHANGED <<ret, target, first, payload, seen, last, npolls, err, waitExit,
                   clockVars, writes, printed>>
    /\ UNCHANGED <<flushed, userVars, offStage>>

\* __init__ up to the call of _home: the port is opened (or the open raises
\* SerialException) and the input buffer is read away
Connect ==
    /\ pc = "new"
    /\ \E opened \in BOOLEAN :
         IF opened THEN pc' = "home" /\ op' = "home" /\ raised' = FALSE
                        /\ flushed' = TRUE
         ELSE pc' = "failed" /\ op' = "none" /\ raised' = TRUE
              /\ UNCHANGED flushed
    /\ UNCHANGED <<ret, target, first, payload, seen, last, npolls, err, waitExit,
                   clockVars, writes, printed>>
    /\ UNCHANGED <<userVars, offStage>>

\* _home: the reading of the state and the branch taken on it
HomePoll ==
    /\ pc = "home"
    /\ \E line \in TSLines :
         LET resp == SendCommand(line)
             clean_resp == CleanResp(resp, TS)
             state == GetControllerState(clean_resp)
         IN  /\ writes' = Append(writes, Frame(TS))
             /\ payload' = clean_resp
             /\ IF ~StateAsserted(clean_resp)
                  THEN /\ raised' = TRUE
                       /\ pc' = AfterRaise(op)
                       /\ UNCHANGED <<first, printed, ret, clockVars>>
                ELSE IF HomeAlreadyReady(state)
                  THEN /\ first' = state
                       /\ printed' = Append(printed, MsgAlreadyReferenced)
                       /\ pc' = "idle"
                       /\ UNCHANGED <<raised, ret, clockVars>>
                ELSE IF HomeBusy(state)
                  THEN /\ first' = state
                       /\ printed' = Append(printed, MsgWaiting)
                       /\ EnterWait("home_busy", MoveTimeout)
                       /\ UNCHANGED raised
                ELSE /\ first' = state
                     /\ pc' = "home_or"
                     /\ UNCHANGED <<printed, raised, ret, clockVars>>
    /\ UNCHANGED <<op, target, seen, last, npolls, err, waitExit>>
    /\ UNCHANGED <<flushed, userVars, offStage>>

\* _home: the OR command and the entry into the wait that follows it
HomeOR ==
    /\ pc = "home_or"
    /\ \E line \in AckLines :
         /\ writes' = Append(writes, Frame(OR))
         /\ printed' = Append(printed, MsgHoming)
         /\ EnterWait("home_or", HomeTimeout)
    /\ UNCHANGED <<op, target, callVars>>
    /\ UNCHANGED <<flushed, userVars, offStage>>

---------------------------------------------------------------------------
(* _wait_for_ready *)

\* one iteration of the loop: the deadline test passes, the state is read
WaitPoll ==
    /\ pc = "wait"
    /\ elapsed < waitTimeout
    /\ npolls < MaxPolls
    /\ \E line \in TSLines :
         LET resp == SendCommand(line)
             clean_resp == CleanResp(resp, TS)
             state == GetControllerState(clean_resp)
         IN  /\ writes' = Append(writes, Frame(TS))
             /\ payload' = clean_resp
             /\ npolls' = npolls + 1
             /\ IF ~StateAsserted(clean_resp)
                  THEN /\ raised' = TRUE
                       /\ pc' = AfterRaise(op)
                       /\ ret' = "none"
                       /\ UNCHANGED <<seen, last, waitExit, printed>>
                ELSE /\ seen' = IF last = <<>> THEN seen ELSE seen \cup {last}
                     /\ last' = state
                     /\ UNCHANGED raised
                     /\ IF WaitReady(state)
                          THEN waitExit' = "ready" /\ AfterWait(printed)
                        ELSE IF WaitFault(state)
                          THEN /\ waitExit' = "fault"
                               /\ AfterWait(Append(printed, MsgEnteredState))
                        ELSE UNCHANGED <<pc, ret, waitExit, printed>>
    /\ UNCHANGED <<op, target, first, err, waitTimeout, elapsed>>
    /\ UNCHANGED <<flushed, userVars, offStage>>

\* mutant: the deadline of every wait is the one of a move
WaitTimedOutAtMoveTimeout ==
    /\ pc = "wait"
    /\ ~(elapsed < MoveTimeout)
    /\ waitExit' = "timeout"
    /\ AfterWait(Append(printed, MsgTimedOut))
    /\ UNCHANGED <<op, target, first, payload, seen, last, npolls, err, raised,
                   clockVars, writes>>
    /\ UNCHANGED <<flushed, userVars, offStage>>

\* the deadline test fails: the loop ends and the warning is printed
WaitTimedOut ==
    /\ pc = "wait"
    /\ ~(elapsed < waitTimeout)
    /\ waitExit' = "timeout"
    /\ AfterWait(Append(printed, MsgTimedOut))
    /\ UNCHANGED <<op, target, first, payload, seen, last, npolls, err, raised,
                   clockVars, writes>>
    /\ UNCHANGED <<flushed, userVars, offStage>>

\* time passes while the wait sleeps or reads
Tick ==
    /\ pc = "wait"
    /\ elapsed < waitTimeout
    /\ elapsed' = elapsed + TickSeconds
    /\ UNCHANGED <<pc, ret, op, target, callVars, waitTimeout, writes, printed>>
    /\ UNCHANGED <<flushed, userVars, offStage>>

---------------------------------------------------------------------------
(* move_absolute *)

\* the call and its check of the state
MovePoll ==
    /\ pc = "idle"
    /\ \E t \in Targets, line \in TSLines :
         LET resp == SendCommand(line)
             clean_resp == CleanResp(resp, TS)
             state == GetControllerState(clean_resp)
         IN  /\ op' = "move"
             /\ target' = t
             /\ writes' = <<Frame(TS)>>
             /\ payload' = clean_resp
             /\ IF ~StateAsserted(clean_resp)
                  THEN raised' = TRUE /\ first' = <<>> /\ pc' = AfterRaise("move")
                       /\ printed' = <<>>
                ELSE IF ~MoveAllowed(state)
                  THEN raised' = FALSE /\ first' = state /\ pc' = "idle"
                       /\ printed' = <<MsgCannotMove>>
                ELSE raised' = FALSE /\ first' = state /\ pc' = "move_pa"
                     /\ printed' = <<>>
    /\ seen' = {}
    /\ last' = <<>>
    /\ npolls' = 0
    /\ err' = <<>>
    /\ waitExit' = "none"
    /\ waitTimeout' = 0
    /\ elapsed' = 0
    /\ UNCHANGED ret
    /\ clean' = <<>>
    /\ pos' = 0
    /\ UNCHANGED <<flushed, offStage>>

\* the PA command
MovePA ==
    /\ pc = "move_pa"
    /\ \E line \in AckLines :
         /\ printed' = Append(printed, MsgMoving)
         /\ writes' = Append(writes, Frame(PA \o FloatStr(target)))
         /\ pc' = "move_te"
    /\ UNCHANGED <<ret, op, target, callVars, clockVars>>
    /\ UNCHANGED <<flushed, userVars, offStage>>

\* get_error() after PA and the branch taken on its value
MoveTE ==
    /\ pc = "move_te"
    /\ \E line \in TELines :
         LET e == GetError(SendCommand(line))
         IN  /\ writes' = Append(writes, Frame(TE))
             /\ err' = e
             /\ IF MoveRejected(e)
                  THEN /\ printed' = Append(printed, MsgMoveAborted)
                       /\ pc' = "idle"
                       /\ UNCHANGED <<ret, clockVars>>
                ELSE /\ EnterWait("move", MoveTimeout)
                     /\ UNCHANGED printed
    /\ UNCHANGED <<op, target, first, payload, seen, last, npolls, waitExit, raised>>
    /\ UNCHANGED <<flushed, userVars, offStage>>

\* get_position() after the wait and the report of the position
MoveTP ==
    /\ pc = "move_tp"
    /\ \E line \in TPLines :
         /\ writes' = Append(writes, Frame(TP))
         /\ printed' = Append(printed, MsgReached)
         /\ pc' = "idle"
    /\ UNCHANGED <<ret, op, target, callVars, clockVars>>
    /\ UNCHANGED <<flushed, userVars, offStage>>

---------------------------------------------------------------------------
(* get_error and get_position called by the user *)

\* what a call of get_error or get_position leaves of the call before it
UserCallStarts ==
    /\ target' = 0
    /\ first' = <<>>
    /\ payload' = <<>>
    /\ seen' = {}
    /\ last' = <<>>
    /\ npolls' = 0
    /\ waitTimeout' = 0
    /\ elapsed' = 0
    /\ waitExit' = "none"
    /\ raised' = FALSE
    /\ printed' = <<>>
    /\ UNCHANGED <<pc, ret, flushed, offStage>>

GetErrorCall ==
    /\ pc = "idle"
    /\ \E line \in TELines :
         LET resp == SendCommand(line)
         IN  /\ op' = "get_error"
             /\ writes' = <<Frame(TE)>>
             /\ clean' = CleanResp(resp, TE)
             /\ err' = GetError(resp)
             /\ pos' = 0
    /\ UserCallStarts

GetPositionCall ==
    /\ pc = "idle"
    /\ \E line \in TPLines :
         LET resp == SendCommand(line)
         IN  /\ op' = "get_position"
             /\ writes' = <<Frame(TP)>>
             /\ clean' = CleanResp(resp, TP)
             /\ pos' = GetPosition(resp)
             /\ err' = <<>>
    /\ UserCallStarts

---------------------------------------------------------------------------

Next ==
    \/ Connect
    \/ HomePoll
    \/ HomeOR
    \/ WaitPoll
    \/ WaitTimedOut
    \/ Tick
    \/ MovePoll
    \/ MovePA
    \/ MoveTE
    \/ MoveTP
    \/ GetErrorCall
    \/ GetPositionCall

Spec == Init /\ [][Next]_vars

\* the same driver with time passing: the clock of time.time() advances while
\* the wait sleeps or reads (every read returns within the read timeout of
\* the port), and the loop test of the wait is executed
LiveSpec == Spec /\ WF_vars(Tick) /\ WF_vars(WaitTimedOut)

---------------------------------------------------------------------------
(* The status decoding taken alone: _get_controller_state applied to two
   lines that carry the same status code behind different leading characters,
   each with or without the echoed prefix *)

\* leading four characters of a status payload (error bits, hexadecimal)
Masks == {<<"0","0","0","0">>, <<"0","0","1","F">>, <<"F","F","F","F">>,
          <<"1","A","3","2">>}

\* status lines of one code: every mask, with and without the prefix
StatusLines(c) == {Line(p \o m \o c) : p \in {<<>>, Fmt(Axis) \o TS}, m \in Masks}

\* _get_controller_state for the line its _send_command reads: whether the
\* assertion fails, and the state returned when it does not
GetControllerStateOf(line) ==
    LET clean_resp == CleanResp(SendCommand(line), TS)
    IN  IF StateAsserted(clean_resp)
          THEN [raised |-> FALSE, state |-> GetControllerState(clean_resp)]
          ELSE [raised |-> TRUE, state |-> <<>>]

InterpInit ==
    /\ StageInit
    /\ \E c \in Codes : \E la \in StatusLines(c), lb \in StatusLines(c) :
         fin = [a |-> la, b |-> lb, code |-> c]
    /\ fout = NoOutput
    /\ ChanIdle
    /\ LegacyIdle
    /\ MockIdle
    /\ DispatchIdle

Interpret ==
    /\ fout = NoOutput
    /\ fout' = [a |-> GetControllerStateOf(fin.a), b |-> GetControllerStateOf(fin.b)]
    /\ UNCHANGED <<stageVars, fin, chanVars, legacyVars, mockVars, dispatchVars>>

InterpNext == Interpret

InterpSpec == InterpInit /\ [][InterpNext]_vars

---------------------------------------------------------------------------
(* The channel taken alone: the exchanges of _send_command against a
   controller that answers each command once, in order, after any delay.
   A reply is named by the command it answers and that command's number. *)

\* the commands the controller answers with a line
Queries == {TS, TE, TP}

\* _send_command: self.ser.write(full_cmd.encode("ascii"))
SendCommandWrite ==
    /\ cpc = "idle"
    /\ nexch < MaxExchanges
    /\ \E cmd_str \in Queries :
         LET command == [cmd |-> cmd_str, n |-> nexch + 1]
         IN  /\ sent' = command
             /\ unanswered' = Append(unanswered, command)
    /\ nexch' = nexch + 1
    /\ cpc' = "written"
    /\ UNCHANGED <<got, rx, stageVars, interpVars, legacyVars, mockVars,
                   dispatchVars>>

\* the controller answers the oldest command it has not answered
ControllerReplies ==
    /\ unanswered # <<>>
    /\ rx' = Append(rx, Head(unanswered))
    /\ unanswered' = Tail(unanswered)
    /\ UNCHANGED <<cpc, sent, got, nexch, stageVars, interpVars, legacyVars,
                   mockVars, dispatchVars>>

\* _send_command: self.ser.readline() returns the oldest line of the buffer
ReadLine ==
    /\ cpc = "written"
    /\ rx # <<>>
    /\ got' = Head(rx)
    /\ rx' = Tail(rx)
    /\ cpc' = "idle"
    /\ UNCHANGED <<sent, unanswered, nexch, stageVars, interpVars, legacyVars,
                   mockVars, dispatchVars>>

\* _send_command: self.ser.readline() gives up after the read timeout of the
\* port (timeout=0.1) with nothing received, and returns no line
ReadLineTimesOut ==
    /\ cpc = "written"
    /\ rx = <<>>
    /\ got' = NoCommand
    /\ cpc' = "idle"
    /\ UNCHANGED <<sent, unanswered, rx, nexch, stageVars, interpVars, legacyVars,
                   mockVars, dispatchVars>>

ChanInit ==
    StageInit /\ InterpIdle /\ ChanIdle /\ LegacyIdle /\ MockIdle /\ DispatchIdle

ChanNext ==
    \/ SendCommandWrite
    \/ ControllerReplies
    \/ ReadLine
    \/ ReadLineTimesOut

ChanSpec == ChanInit /\ [][ChanNext]_vars

---------------------------------------------------------------------------
(* The driver of main.py: move_absolute writes PA and polls the position
   until it is within the tolerance.  Positions are in thousandths of a mm. *)

LegacyTargets == {5000, 10000, 12500}

\* main.py _send_command: the response returned, for an exchange in which
\* the port raised (failed) or gave the line; "except Exception" returns ""
LegacySendCommand(failed, line) ==
    IF failed THEN [raised |-> FALSE, text |-> <<>>]
    ELSE [raised |-> FALSE, text |-> Strip(line)]

\* main.py get_position: the value returned for the response read
LegacyGetPosition(resp) ==
    LET clean_resp == Strip(Replace(resp, Fmt(MotorAxis) \o TP))
    IN  IF IsFloat(clean_resp) THEN FloatValue(clean_resp) ELSE UnknownPosition

Abs(x) == IF x < 0 THEN 0 - x ELSE x

\* mutant: a reading at the tolerance counts as arrived
LegacyArrivedInclusive(cur, tgt) == Abs(cur - tgt) <= Tolerance

\* main.py move_absolute: "if abs(current_pos - target_mm) < 0.005"
LegacyArrived(cur, tgt) == Abs(cur - tgt) < Tolerance

\* main.py move_absolute up to the loop: print, _send_command(PA...)
LegacyMoveAbsolute ==
    /\ lpc = "idle"
    /\ \E t \in LegacyTargets : target_mm' = t
    /\ \E failed \in BOOLEAN, line \in AckLines :
         /\ iofailed' = failed
         /\ response' = LegacySendCommand(failed, line)
    /\ nPA' = 1
    /\ nTP' = 0
    /\ current_pos' = 0
    /\ returned' = FALSE
    /\ lpc' = "loop"
    /\ UNCHANGED <<stageVars, interpVars, chanVars, mockVars, dispatchVars>>

\* main.py move_absolute: one iteration of "while True"
LegacyPoll ==
    /\ lpc = "loop"
    /\ nTP < MaxLegacyPolls
    /\ \E failed \in BOOLEAN, line \in TPLines :
         LET resp == LegacySendCommand(failed, line)
             cur == LegacyGetPosition(resp.text)
         IN  /\ iofailed' = failed
             /\ response' = resp
             /\ current_pos' = cur
             /\ IF LegacyArrived(cur, target_mm)
                   THEN lpc' = "idle" /\ returned' = TRUE
                   ELSE lpc' = "loop" /\ returned' = FALSE
    /\ nTP' = nTP + 1
    /\ UNCHANGED <<nPA, target_mm, stageVars, interpVars, chanVars, mockVars,
                   dispatchVars>>

LegacyInit ==
    StageInit /\ InterpIdle /\ ChanIdle /\ LegacyIdle /\ MockIdle /\ DispatchIdle

LegacyNext ==
    \/ LegacyMoveAbsolute
    \/ LegacyPoll

LegacySpec == LegacyInit /\ [][LegacyNext]_vars

---------------------------------------------------------------------------
(* The mock data source (src/mock_beamgagepy.py): start(), stop() and the
   threads of _emit_frames.  A frame handler may run for any length of time;
   the sleep between two frames is shorter than the join timeout of stop(). *)

notMock == <<stageVars, interpVars, chanVars, legacyVars, dispatchVars>>

\* the threads of _emit_frames that have not ended
Alive == {t \in Threads : emit[t] \in {"test", "handler"}}

AttachFrameEvents ==
    /\ mockpc = "idle"
    /\ ~attached
    /\ attached' = TRUE
    /\ UNCHANGED <<is_running, stop_event, frame_thread, emit, mockpc, nthreads,
                   ncalls, mockRaised, notMock>>

Start ==
    /\ mockpc = "idle"
    /\ ncalls < MaxCalls
    /\ ncalls' = ncalls + 1
    /\ IF is_running
         THEN /\ mockRaised' = FALSE
              /\ UNCHANGED <<is_running, stop_event, frame_thread, emit, nthreads>>
       ELSE IF ~attached
         THEN /\ mockRaised' = TRUE
              /\ UNCHANGED <<is_running, stop_event, frame_thread, emit, nthreads>>
       ELSE /\ nthreads < MaxThreads
            /\ mockRaised' = FALSE
            /\ is_running' = TRUE
            /\ stop_event' = FALSE
            /\ nthreads' = nthreads + 1
            /\ frame_thread' = nthreads + 1
            /\ emit' = [emit EXCEPT ![nthreads + 1] = "test"]
    /\ UNCHANGED <<attached, mockpc, notMock>>

\* stop() up to the join
Stop ==
    /\ mockpc = "idle"
    /\ ncalls < MaxCalls
    /\ ncalls' = ncalls + 1
    /\ mockRaised' = FALSE
    /\ IF ~is_running
         THEN UNCHANGED <<is_running, stop_event, mockpc>>
       ELSE /\ is_running' = FALSE
            /\ stop_event' = TRUE
            /\ mockpc' = IF frame_thread # 0 THEN "joining" ELSE "idle"
    /\ UNCHANGED <<frame_thread, attached, emit, nthreads, notMock>>

\* stop(): join(timeout=1.0) returns because the thread has ended
JoinReturns ==
    /\ mockpc = "joining"
    /\ emit[frame_thread] = "dead"
    /\ frame_thread' = 0
    /\ mockpc' = "idle"
    /\ UNCHANGED <<is_running, stop_event, attached, emit, nthreads, ncalls,
                   mockRaised, notMock>>

\* stop(): join(timeout=1.0) returns after one second with the thread still
\* inside a frame handler
JoinTimesOut ==
    /\ mockpc = "joining"
    /\ emit[frame_thread] = "handler"
    /\ frame_thread' = 0
    /\ mockpc' = "idle"
    /\ UNCHANGED <<is_running, stop_event, attached, emit, nthreads, ncalls,
                   mockRaised, notMock>>

\* _emit_frames: the loop test, and the call of trigger_new_frame
EmitFrames ==
    /\ \E t \in Threads :
         /\ emit[t] = "test"
         /\ emit' = [emit EXCEPT ![t] = IF stop_event THEN "dead" ELSE "handler"]
    /\ UNCHANGED <<is_running, stop_event, frame_thread, attached, mockpc,
                   nthreads, ncalls, mockRaised, notMock>>

\* _emit_frames: trigger_new_frame returns and the thread sleeps
HandlersReturn ==
    /\ \E t \in Threads :
         /\ emit[t] = "handler"
         /\ emit' = [emit EXCEPT ![t] = "test"]
    /\ UNCHANGED <<is_running, stop_event, frame_thread, attached, mockpc,
                   nthreads, ncalls, mockRaised, notMock>>

MockInit ==
    StageInit /\ InterpIdle /\ ChanIdle /\ LegacyIdle /\ MockIdle /\ DispatchIdle

MockNext ==
    \/ AttachFrameEvents
    \/ Start
    \/ Stop
    \/ JoinReturns
    \/ JoinTimesOut
    \/ EmitFrames
    \/ HandlersReturn

MockSpec == MockInit /\ [][MockNext]_vars

---------------------------------------------------------------------------
(* The frame events of the mock (MockFrameEvents): += and -= on the list of
   handlers and the dispatch of one frame by trigger_new_frame.  The loop
   "for handler in self._on_new_frame_handlers" walks the list itself: its
   iterator keeps the number of elements passed and ends when that number
   is no longer below the length of the list. *)

notDispatch == <<stageVars, interpVars, chanVars, legacyVars, mockVars>>

\* list.remove(handler), guarded by "if handler in": the first occurrence
\* is taken out of the list
RECURSIVE Remove(_, _)
Remove(list, handler) ==
    IF list = <<>> THEN <<>>
    ELSE IF Head(list) = handler THEN Tail(list)
    ELSE <<Head(list)>> \o Remove(Tail(list), handler)

\* the handlers in a list
InList(list) == {list[i] : i \in 1..Len(list)}

\* what a handler does when it is called: returns, raises an Exception, or
\* unsubscribes a handler (itself or another) with -=
HandlerDeeds == {[deed |-> "returns", h |-> 0], [deed |-> "raises", h |-> 0]}
                \cup {[deed |-> "unsubscribes", h |-> g] : g \in Handlers}

\* __iadd__, for a handler that is not subscribed
Subscribe ==
    /\ \E handler \in Handlers \ InList(on_new_frame_handlers) :
         on_new_frame_handlers' = Append(on_new_frame_handlers, handler)
    /\ UNCHANGED <<dpc, idx, subscribed, removed, invoked, caught, notDispatch>>

\* __isub__ called from outside the handlers: between frames, or from
\* another thread while trigger_new_frame is in its loop
Unsubscribe ==
    /\ \E handler \in InList(on_new_frame_handlers) :
         /\ on_new_frame_handlers' = Remove(on_new_frame_handlers, handler)
         /\ removed' = IF dpc = "dispatching" THEN removed \cup {handler} ELSE removed
    /\ UNCHANGED <<dpc, idx, subscribed, invoked, caught, notDispatch>>

\* trigger_new_frame is called: the loop starts
TriggerNewFrame ==
    /\ dpc = "idle"
    /\ on_new_frame_handlers # <<>>
    /\ dpc' = "dispatching"
    /\ idx' = 0
    /\ subscribed' = InList(on_new_frame_handlers)
    /\ removed' = {}
    /\ invoked' = [h \in Handlers |-> 0]
    /\ caught' = {}
    /\ UNCHANGED <<on_new_frame_handlers, notDispatch>>

\* trigger_new_frame: one iteration, the call of the next handler of the
\* list inside try/except
InvokeHandler ==
    /\ dpc = "dispatching"
    /\ idx < Len(on_new_frame_handlers)
    /\ LET handler == on_new_frame_handlers[idx + 1]
       IN  /\ invoked' = [invoked EXCEPT ![handler] = @ + 1]
           /\ idx' = idx + 1
           /\ \E d \in HandlerDeeds :
                /\ caught' = IF d.deed = "raises" THEN caught \cup {handler} ELSE caught
                /\ IF d.deed = "unsubscribes"
                     THEN /\ on_new_frame_handlers' = Remove(on_new_frame_handlers, d.h)
                          /\ removed' = removed \cup
                                          ({d.h} \cap InList(on_new_frame_handlers))
                   ELSE UNCHANGED <<on_new_frame_handlers, removed>>
    /\ UNCHANGED <<dpc, subscribed, notDispatch>>

\* trigger_new_frame: the iterator is at or past the end of the list
DispatchEnds ==
    /\ dpc = "dispatching"
    /\ ~(idx < Len(on_new_frame_handlers))
    /\ dpc' = "idle"
    /\ UNCHANGED <<on_new_frame_handlers, idx, subscribed, removed, invoked, caught,
                   notDispatch>>

DispatchInit ==
    StageInit /\ InterpIdle /\ ChanIdle /\ LegacyIdle /\ MockIdle /\ DispatchIdle

DispatchNext ==
    \/ Subscribe
    \/ Unsubscribe
    \/ TriggerNewFrame
    \/ InvokeHandler
    \/ DispatchEnds

DispatchSpec == DispatchInit /\ [][DispatchNext]_vars

---------------------------------------------------------------------------
(* Vocabulary of the properties *)

Range(s) == {s[i] : i \in 1..Len(s)}

Repeat(x, n) == [i \in 1..n |-> x]

DecisiveCodes == ReadyCodes \cup FaultCodes

HomingCodes == {<<"1","E">>, <<"1","F">>}

MovingCodes == {<<"2","8">>}

\* the status codes 0A to 11 of the controller's table
NotReferencedRange ==
    {<<"0","A">>, <<"0","B">>, <<"0","C">>, <<"0","D">>, <<"0","E">>, <<"0","F">>,
     <<"1","0">>, <<"1","1">>}

---------------------------------------------------------------------------
(* Properties *)

\* C1: a move_absolute call whose first poll does not return one of the states
\* 32, 33, 34, 35 is rejected: the TS poll is the only command the call writes
\* (no PA, TE or TP), and the call ends with the "Cannot Move" message or with
\* the assertion of the poll failing.
C1_RejectedMoveWritesOnlyTS ==
    (op = "move" /\ first \notin ReadyCodes) =>
        /\ writes = <<Frame(TS)>>
        /\ pc = "idle"
        /\ IF raised THEN printed = <<>> ELSE printed = <<MsgCannotMove>>
        /\ npolls = 0

C1_Witness ==
    /\ op = "move" /\ target = 50 /\ first = <<"2","8">>
    /\ pc = "idle" /\ writes = <<Frame(TS)>> /\ printed = <<MsgCannotMove>>

\* C2 as claimed: homing writes nothing to the port when the state first read
\* is one of 32, 33, 34, 35.
C2_ReadyHomeWritesNothing ==
    (op = "home" /\ first \in ReadyCodes) => writes = <<>>

\* C2 as amended: when the state first read by homing is one of 32, 33, 34, 35,
\* the TS poll that read it is the only command homing writes: no OR and no
\* further poll, and homing ends with the "Already Referenced" message.
C2_ReadyHomeWritesOnlyTS ==
    (op = "home" /\ first \in ReadyCodes) =>
        /\ writes = <<Frame(TS)>>
        /\ pc = "idle"
        /\ printed = <<MsgAlreadyReferenced>>
        /\ npolls = 0 /\ waitExit = "none"

C2_Witness ==
    op = "home" /\ first = <<"3","4">> /\ pc = "idle" /\ writes = <<Frame(TS)>>

\* C3: when homing first reads a not-referenced state and the polls of the
\* wait return homing states (1E, 1F) and then a ready state, the writes are
\* TS, one OR, then one TS per poll, the wait ends at that ready state and
\* homing ends with "Homing Complete." and no error or timeout message.
C3_HomeFromNotReferenced ==
    (/\ op = "home" /\ first \in NotReferencedRange
     /\ seen \subseteq HomingCodes /\ last \in ReadyCodes) =>
        /\ writes = <<Frame(TS), Frame(OR)>> \o Repeat(Frame(TS), npolls)
        /\ pc = "idle"
        /\ waitExit = "ready"
        /\ ~raised
        /\ printed = <<MsgHoming, MsgHomingComplete>>

C3_Witness ==
    /\ op = "home" /\ first = <<"0","A">> /\ pc = "idle"
    /\ seen = HomingCodes /\ last = <<"3","2">> /\ npolls = 3
    /\ writes = <<Frame(TS), Frame(OR), Frame(TS), Frame(TS), Frame(TS)>>

\* C4: when homing first reads Moving (28) or Homing (1E, 1F), every command
\* it writes is a TS poll, one for the first read and one per poll of the
\* wait: OR is never written.
C4_BusyHomeNeverWritesOR ==
    (op = "home" /\ first \in {<<"2","8">>, <<"1","E">>, <<"1","F">>}) =>
        /\ writes = Repeat(Frame(TS), 1 + npolls)
        /\ pc \in {"wait", "idle", "failed"}
        /\ printed[1] = MsgWaiting

C4_Witness ==
    /\ op = "home" /\ first = <<"1","E">> /\ pc = "idle"
    /\ npolls = 2 /\ waitExit = "ready"

\* C5 as claimed: homing writes OR only when the state it first read is in
\* the not-referenced range 0A to 11.
C5_OROnlyFromNotReferenced ==
    (op = "home" /\ Frame(OR) \in Range(writes)) => first \in NotReferencedRange

\* C6: the wait never polls again after a poll that returned a ready state
\* (32 to 35) or a fault state (3C, 3D, 3E, 14): no such state is followed by
\* another poll, and the driver is out of the wait as soon as one is returned.
C6_WaitStopsAtDecisiveState ==
    /\ seen \cap DecisiveCodes = {}
    /\ last \in DecisiveCodes => pc # "wait"
    /\ last \in ReadyCodes => waitExit = "ready"
    /\ last \in FaultCodes => waitExit = "fault"

C6_Witness ==
    /\ waitExit = "fault" /\ last = <<"3","D">> /\ npolls = 3
    /\ seen = {<<"2","8">>, <<"4","6">>} /\ pc = "idle"

\* C7 as claimed: a call whose wait ended on a fault state or on the deadline
\* does not end with the success message ("Homing Complete." or "Reached").
C7_FailedWaitIsNotReportedAsSuccess ==
    waitExit \in {"fault", "timeout"} =>
        /\ MsgHomingComplete \notin Range(printed)
        /\ MsgReached \notin Range(printed)

\* C8: when get_error() after PA returns a non-empty string, move_absolute
\* ends there: TE is the last command of the call, no poll and no TP follow.
C8_RejectedMoveStopsAfterTE ==
    (op = "move" /\ err # <<>>) =>
        /\ writes = <<Frame(TS), Frame(PA \o FloatStr(target)), Frame(TE)>>
        /\ pc = "idle"
        /\ npolls = 0 /\ waitExit = "none"
        /\ printed = <<MsgMoving, MsgMoveAborted>>

C8_Witness ==
    /\ op = "move" /\ err = ErrorCodeText \o <<"C">> /\ pc = "idle"
    /\ Len(writes) = 3

\* C9: a move_absolute call whose first poll is ready, whose TE answer is "@"
\* and whose wait polls return Moving (28) and then a ready state writes TS,
\* PA with the target, TE, one TS per poll and last one TP, and ends with
\* the "Reached" message.
C9_MoveCommandOrder ==
    (/\ op = "move" /\ first \in ReadyCodes /\ Frame(TE) \in Range(writes)
     /\ err = <<>> /\ seen \subseteq MovingCodes /\ last \in ReadyCodes) =>
        LET upToReady == <<Frame(TS), Frame(PA \o FloatStr(target)), Frame(TE)>>
                            \o Repeat(Frame(TS), npolls)
        IN  /\ waitExit = "ready" /\ ~raised
            /\ \/ pc = "move_tp" /\ writes = upToReady /\ printed = <<MsgMoving>>
               \/ /\ pc = "idle" /\ writes = upToReady \o <<Frame(TP)>>
                  /\ printed = <<MsgMoving, MsgReached>>

C9_Witness ==
    /\ op = "move" /\ target = 125 /\ first = <<"3","3">> /\ pc = "idle"
    /\ seen = MovingCodes /\ last = <<"3","3">> /\ npolls = 3 /\ ~raised
    /\ writes[2] = <<"1","P","A","1","2",".","5","\r","\n">>
    /\ Len(writes) = 7

\* C10 as claimed: a TS reply whose payload is shorter than six characters
\* does not raise, and a wait that reads one stays in its loop.
C10_ShortPayloadDoesNotRaise ==
    (writes # <<>> /\ Len(payload) < 6) =>
        /\ ~raised
        /\ npolls > 0 => pc = "wait"

\* C11: a state outside 32, 33, 34, 35 is never taken for ready: the wait
\* ends as ready only on one of those four, after a poll that returned any
\* other state that is no fault state the wait is still polling or ends on its
\* deadline, and move_absolute refuses the move on any other state.
C11_OnlyTheFourCodesAreReady ==
    LET four == {<<"3","2">>, <<"3","3">>, <<"3","4">>, <<"3","5">>}
        faults == {<<"3","C">>, <<"3","D">>, <<"3","E">>, <<"1","4">>}
    IN  /\ waitExit = "ready" => last \in four
        /\ (last # <<>> /\ last \notin four \cup faults /\ ~raised) =>
               (pc = "wait" \/ waitExit = "timeout")
        /\ (op = "move" /\ first # <<>> /\ first \notin four) =>
               /\ printed = <<MsgCannotMove>>
               /\ \A i \in 1..Len(writes) : SubSeq(writes[i], 2, 3) # PA

C11_Witness ==
    /\ pc = "wait" /\ op = "move" /\ last = <<"4","6">> /\ seen = {<<"0","A">>}
    /\ npolls = 2

\* C12: two status lines whose six-character payloads differ only in their
\* first four characters, each with or without the echoed "1TS", decode to
\* the same state, the last two characters, and neither raises.
C12_StateIgnoresLeadingCharacters ==
    fout # NoOutput =>
        /\ ~fout.a.raised /\ ~fout.b.raised
        /\ fout.a.state = fout.b.state
        /\ fout.a.state = fin.code

C12_Witness ==
    /\ fin.a = Line(<<"F","F","F","F","3","C">>)
    /\ fin.b = Line(<<"1","T","S","0","0","1","F","3","C">>)
    /\ fout.a.state = <<"3","C">> /\ fout.b.state = <<"3","C">>

\* C13 as claimed: get_error() returns the payload itself whenever the
\* payload is not "@".
C13_ErrorIsTheRawPayload ==
    (op = "get_error" /\ clean # <<"@">>) => err = clean

\* C13 as amended: get_error() writes one TE, returns the empty string exactly
\* when the payload is "@", and for every other payload, the empty one
\* included, returns "Error Code: " followed by the payload.
C13_ErrorIsThePrefixedPayload ==
    op = "get_error" =>
        /\ writes = <<Frame(TE)>>
        /\ pc = "idle" /\ ~raised
        /\ err = <<>> <=> clean = <<"@">>
        /\ clean # <<"@">> =>
              err = <<"E","r","r","o","r"," ","C","o","d","e",":"," ">> \o clean

C13_Witness ==
    /\ op = "get_error" /\ clean = <<"C">>
    /\ err = <<"E","r","r","o","r"," ","C","o","d","e",":"," ","C">>

\* a payload float() cannot read: empty, or with a character of no number
Garbled(s) ==
    \/ s = <<>>
    \/ \E i \in 1..Len(s) : s[i] \notin DigitChars \cup {".", "+", "-"}
    \/ s = <<"1",".","2",".","3">>

\* C14: a call of get_position() writes exactly one TP and returns what that
\* reply says: the number in it, or -999.0 when the payload is no number
\* (garbled or empty); it does not raise.
C14_PositionComesFromOneTP ==
    op = "get_position" =>
        /\ writes = <<Frame(TP)>>
        /\ pc = "idle" /\ ~raised
        /\ Garbled(clean) => pos = 0 - 999000
        /\ clean = <<"1","2",".","5">> => pos = 12500
        /\ clean = <<"-","3",".","2","5">> => pos = 0 - 3250
        /\ clean = <<"1","0",".","0","0","5">> => pos = 10005
        /\ clean \in {<<"0",".","0">>} => pos = 0
        /\ clean = <<"5",".","0">> => pos = 5000

C14_Witness ==
    op = "get_position" /\ clean = <<"?">> /\ pos = 0 - 999000

\* C15: the line each exchange reads is the reply to the command that exchange
\* wrote, also when the controller answers later than the read timeout.
C15_ExchangeReadsItsOwnReply ==
    (cpc = "idle" /\ got # NoCommand) => got = sent

\* C16: an I/O failure of the port during an exchange reaches the caller as a
\* failure, and is not handed to it as a response, in main.py as in stage.py.
C16_IOFailureReachesTheCaller ==
    iofailed => response.raised

\* the places of a frame in a log of frames
Places(frame, log) == {i \in 1..Len(log) : log[i] = frame}

PlacesOfPA(log) == {i \in 1..Len(log) : SubSeq(log[i], 2, 3) = <<"P","A">>}

\* an OR is in the log of the constructor's homing only, once, behind the
\* discard of the input buffer and with no PA; a PA is in the log of
\* move_absolute only
ORInTheConstructorLogOnly ==
    /\ Places(<<"1","O","R","\r","\n">>, writes) # {} =>
          /\ op = "home"
          /\ flushed
          /\ Cardinality(Places(<<"1","O","R","\r","\n">>, writes)) = 1
          /\ PlacesOfPA(writes) = {}
    /\ PlacesOfPA(writes) # {} => op = "move"

\* C17: over the life of a driver object, OR is written at most once, and
\* then during construction, after the input buffer was read away and before
\* any PA: an OR is in the log of the constructor's homing only, once, with
\* the buffer discarded and no PA; PA is written by move_absolute only; and
\* no call made after construction homes again.
C17_ORAtMostOnceDuringConstruction ==
    /\ []ORInTheConstructorLogOnly
    /\ [][op' = "home" => op \in {"none", "home"}]_vars

C17_Witness ==
    /\ op = "home" /\ pc = "idle" /\ flushed
    /\ writes = <<<<"1","T","S","\r","\n">>, <<"1","O","R","\r","\n">>,
                  <<"1","T","S","\r","\n">>>>

\* C19: move_absolute of main.py writes PA once and returns only after a
\* get_position reading less than 0.005 mm from the target; there is no
\* deadline: while the readings are not within the tolerance, the sentinel
\* -999.0 of a garbled or failed read included, the call is still in its loop
\* and the next TP poll is always possible.
C19_LegacyMoveReturnsOnlyWithinTolerance ==
    /\ (lpc = "loop" \/ returned) => nPA = 1
    /\ returned =>
          /\ lpc = "idle" /\ nTP >= 1
          /\ current_pos - target_mm < 5 /\ target_mm - current_pos < 5
    /\ (lpc = "idle" /\ nPA # 0) => returned
    /\ (lpc = "loop" /\ nTP >= 1) =>
          (current_pos - target_mm >= 5 \/ target_mm - current_pos >= 5)
    /\ (lpc = "loop" /\ nTP < MaxLegacyPolls) => ENABLED LegacyPoll

C19_Witness ==
    /\ lpc = "loop" /\ nTP >= 3 /\ nPA = 1
    /\ current_pos = 0 - 999000 /\ iofailed

\* the wait is over, not by an exception, and no poll of it returned a state
\* other than 28 (Moving)
OnlyMovingWasSeen ==
    /\ waitExit # "none"
    /\ last \in {<<>>, <<"2","8">>}
    /\ seen \subseteq {<<"2","8">>}

\* C18: _wait_for_ready always terminates; it ends as timed out only once its
\* deadline has elapsed (30 s, 60 s for the wait that follows OR), and when
\* every poll reported 28 (Moving) it ends as timed out.
C18_WaitEndsAtItsDeadline ==
    /\ (pc = "wait") ~> (pc # "wait")
    /\ [](pc = "wait" => waitTimeout = IF ret = "home_or" THEN 60 ELSE 30)
    /\ [](waitExit = "timeout" => waitTimeout \in {30, 60} /\ elapsed >= waitTimeout)
    /\ [](OnlyMovingWasSeen => waitExit = "timeout")

C18_Witness ==
    /\ waitExit = "timeout" /\ waitTimeout = 60 /\ elapsed = 60
    /\ last = <<"2","8">> /\ seen = {<<"2","8">>} /\ npolls = 3
    /\ pc = "idle"

\* C20: after any sequence of start() and stop() calls of the mock data
\* source, at most one thread of _emit_frames is alive.
C20_AtMostOneEmitterAlive ==
    mockpc = "idle" => Cardinality(Alive) <= 1

\* C21: when trigger_new_frame has returned, every handler that was
\* subscribed when it started and was not unsubscribed since has been called
\* exactly once for the frame, also when handlers were unsubscribed during
\* the dispatch.
C21_EverySubscribedHandlerIsCalledOnce ==
    dpc = "idle" => \A h \in subscribed \ removed : invoked[h] = 1

====
